---- MODULE Spec2Model ----
(***************************************************************************)
(* Model of Python_Exam/data_processor.py: the webhook pipeline            *)
(* (DataProcessor.process_webhook_data), the signature verifier            *)
(* (_is_valid_hmac), the shared HTTP session with urllib3 Retry            *)
(* (create_requests_session), DataProcessor.call_external_api and the      *)
(* persistence operations fetch_user_data and ensure_table.                *)
(*                                                                         *)
(* One invocation runs at a time; its position is pc.  The library calls   *)
(* the code makes (json.dumps, hmac, SQLAlchemy connections, the urllib3   *)
(* retry loop behind session.post) are modelled by what they do.           *)
(***************************************************************************)
EXTENDS Integers, FiniteSets, Sequences, TLC

\* ------------------------------------------------------------------ bounds
MaxId == 2                      \* user ids are 1..MaxId
Ids == 1..MaxId

\* --------------------------------------------------------------- constants
max_retries == 3                \* create_requests_session(max_retries=3)
status_forcelist == {429, 500, 502, 503, 504}
\* urllib3 Retry.DEFAULT_ALLOWED_METHODS: the Retry of the session is built
\* without allowed_methods, so this default applies.
DEFAULT_ALLOWED_METHODS == {"DELETE", "GET", "HEAD", "OPTIONS", "PUT", "TRACE"}

VARIABLES
    WEBHOOK_SECRET,     \* "" (unset) or the shared secret
    WEBHOOK_ENDPOINT,   \* "" (unset) or the forwarding URL
    API_KEY,            \* "" (unset) or the key
    db_url,             \* "" (unset), "bad" (create_engine raises) or "ok"
    db_engine,          \* "none", or the engine: "autocommit" (SQLAlchemy 1.x
                        \* connections) or "transactional" (SQLAlchemy 2.x)
    store,              \* committed rows of user_data, by id
    txn,                \* ids deleted in the open connection's transaction
    checkedOut,         \* connections checked out of the pool
    op,                 \* running operation: "none", "webhook", "api",
                        \* "fetch", "ensure"
    pc,                 \* position inside the operation
    wire,               \* the bytes the host received for this event
    webhook_body,       \* the parsed body handed to process_webhook_data
    signature_header,   \* the header handed to process_webhook_data
    raw_payload,        \* the local raw_payload
    store0,             \* store when the invocation started
    db_log,             \* database operations issued by this invocation
    db_exc,             \* TRUE when SQLAlchemyError was raised in it
    rowcount,           \* result.rowcount of the delete, -1 when none
    retries_total,      \* Retry.total left for the request in flight
    posts,              \* POST attempts sent by this invocation
    seen,               \* what the endpoint answered to those attempts
    http_out,           \* what session.post gave back: response or exception
    result,             \* the dict process_webhook_data returned
    api_res,            \* what call_external_api returned
    post_call,          \* the session.post call of this invocation: url, json
    verify,             \* the _is_valid_hmac call of this invocation
    user_id_arg,        \* the argument of fetch_user_data
    fetch_res           \* what fetch_user_data returned

vars == <<WEBHOOK_SECRET, WEBHOOK_ENDPOINT, API_KEY, db_url, db_engine, store,
          txn, checkedOut, op, pc, wire, webhook_body, signature_header,
          raw_payload, store0, db_log, db_exc, rowcount, retries_total,
          posts, seen, http_out, result, api_res, post_call, verify,
          user_id_arg, fetch_res>>

config == <<WEBHOOK_SECRET, WEBHOOK_ENDPOINT, API_KEY, db_url, db_engine>>
event == <<wire, webhook_body, signature_header>>
dbvars == <<store, txn, checkedOut, db_log, db_exc, rowcount>>
httpvars == <<retries_total, posts, seen, http_out>>
fetchvars == <<user_id_arg, fetch_res>>

\* ------------------------------------------------------------- JSON values
JAbsent == [t |-> "absent", n |-> 0, s |-> ""]
JNull == [t |-> "null", n |-> 0, s |-> ""]
JInt(i) == [t |-> "int", n |-> i, s |-> ""]
JBool(b) == [t |-> "bool", n |-> b, s |-> ""]     \* Python: True == 1
JFloat == [t |-> "float", n |-> 1, s |-> ""]
JStr(x) == [t |-> "str", n |-> 0, s |-> x]
JObj == [t |-> "object", n |-> 0, s |-> ""]

UserIdValues == {JAbsent, JNull, JBool(1), JFloat, JStr("abc"), JObj}
                    \cup {JInt(i) : i \in Ids}
ActionValues == {JAbsent, JStr("delete_user"), JStr("noop"), JInt(1)}
\* A body is a JSON object (a dict) or, when the sender posts another JSON
\* value, not one: ArrayBody is a list.
ArrayBody == [kind |-> "array", user_id |-> JAbsent, action |-> JAbsent]
Bodies == [kind : {"object"}, user_id : UserIdValues, action : ActionValues]
              \cup {ArrayBody}
EmptyBody == [kind |-> "object", user_id |-> JAbsent, action |-> JAbsent]

\* Serialized forms.  json.dumps writes ", " and ": " separators; a sender may
\* write the same body compactly.
Styles == {"default", "compact"}
NoBytes == [style |-> "", body |-> EmptyBody]
json_dumps(body) == [style |-> "default", body |-> body]
json_loads(bytes) == bytes.body

\* dict.get(key): None for a missing key and for a JSON null alike
Get(v) == IF v.t = "absent" THEN JNull ELSE v
IsNone(v) == v.t = "null"
\* isinstance(v, int): bool is a subclass of int
IsInstanceInt(v) == v.t \in {"int", "bool"}

\* ------------------------------------------------------------------- HMAC
\* hmac.new(key, msg, sha256).hexdigest(): injective in (key, msg)
hexdigest(key, msg) == [key |-> key, msg |-> msg]
NoDigest == [key |-> "", msg |-> NoBytes]
\* A header string pre [= dig]; None is present = FALSE
None == [present |-> FALSE, pre |-> "", eq |-> FALSE, dig |-> NoDigest]
Header(pre, dig) == [present |-> TRUE, pre |-> pre, eq |-> TRUE, dig |-> dig]
NoSeparator == [present |-> TRUE, pre |-> "sha256", eq |-> FALSE, dig |-> NoDigest]
EmptyString == [present |-> TRUE, pre |-> "", eq |-> FALSE, dig |-> NoDigest]
OrEmpty(h) == IF h.present THEN h ELSE EmptyString      \* signature_header or ""
IsEmpty(h) == h.pre = "" /\ ~h.eq
lower(x) == IF x = "SHA256" THEN "sha256" ELSE x

_is_valid_hmac_NoAlgorithmCheck(secret, payload, header) ==
    IF secret = "" \/ IsEmpty(header) THEN FALSE
    ELSE IF ~header.eq THEN FALSE
    ELSE hexdigest(secret, payload) = header.dig

_is_valid_hmac_IgnoresPayload(secret, payload, header) ==
    IF secret = "" \/ IsEmpty(header) THEN FALSE
    ELSE IF ~header.eq THEN FALSE
    ELSE IF lower(header.pre) # "sha256" THEN FALSE
    ELSE hexdigest(secret, NoBytes).key = header.dig.key

_is_valid_hmac(secret, payload, header) ==
    IF secret = "" \/ IsEmpty(header) THEN FALSE
    ELSE IF ~header.eq THEN FALSE                 \* split: ValueError, caught
    ELSE IF lower(header.pre) # "sha256" THEN FALSE
    ELSE hexdigest(secret, payload) = header.dig  \* compare_digest

\* The record of one call _is_valid_hmac(secret, payload, header) and of what
\* it returned
NoCall == [called |-> FALSE, secret |-> "", payload |-> NoBytes,
           header |-> EmptyString, ok |-> FALSE]
Verified(secret, payload, header) ==
    [called |-> TRUE, secret |-> secret, payload |-> payload, header |-> header,
     ok |-> _is_valid_hmac(secret, payload, header)]

\* ---------------------------------------------------------------- outcomes
NoResult == [status |-> "", message |-> "", forward_status |-> 0, forward_error |-> ""]
Err(m) == [status |-> "error", message |-> m, forward_status |-> 0, forward_error |-> ""]
Processed == [status |-> "processed", message |-> "", forward_status |-> 0, forward_error |-> ""]
ProcessedStatus(c) == [Processed EXCEPT !.forward_status = c]
ProcessedError(e) == [Processed EXCEPT !.forward_error = e]

\* ------------------------------------------------------------ HTTP session
Resp(c) == [kind |-> "response", code |-> c, exc |-> ""]
Raised(e) == [kind |-> "raised", code |-> 0, exc |-> e]
NoHttp == [kind |-> "none", code |-> 0, exc |-> ""]
ConnectError == [kind |-> "connect_error", code |-> 0, exc |-> ""]
ReadTimeout == [kind |-> "read_timeout", code |-> 0, exc |-> ""]
Answers == {Resp(200), Resp(404), Resp(500), Resp(503), ConnectError, ReadTimeout}

\* session.post(url, json=...): what was posted where
NoPost == [calls |-> 0, url |-> "", json |-> EmptyBody]
Post(url, json) == [calls |-> 1, url |-> url, json |-> json]

is_method_retryable(method) == method \in DEFAULT_ALLOWED_METHODS
is_retry(method, status_code) ==
    is_method_retryable(method) /\ status_code \in status_forcelist

\* ------------------------------------------------------------------- Init
\* DataProcessor.__init__: the engine exists only if a URL is set and
\* create_engine did not raise.
InitEngine(url) ==
    IF url = "ok" THEN {"autocommit", "transactional"} ELSE {"none"}

Init ==
    /\ WEBHOOK_SECRET \in {"", "k1"}
    /\ WEBHOOK_ENDPOINT \in {"", "url"}
    /\ API_KEY \in {"", "key"}
    /\ db_url \in {"", "bad", "ok"}
    /\ db_engine \in InitEngine(db_url)
    /\ store \in SUBSET Ids
    /\ txn = {}
    /\ checkedOut = 0
    /\ op = "none"
    /\ pc = "idle"
    /\ wire = NoBytes
    /\ webhook_body = EmptyBody
    /\ signature_header = None
    /\ raw_payload = NoBytes
    /\ store0 = store
    /\ db_log = {}
    /\ db_exc = FALSE
    /\ rowcount = -1
    /\ retries_total = 0
    /\ posts = 0
    /\ seen = {}
    /\ http_out = NoHttp
    /\ result = NoResult
    /\ api_res = ""
    /\ post_call = NoPost
    /\ verify = NoCall
    /\ user_id_arg = 0
    /\ fetch_res = ""

\* ------------------------------------------- process_webhook_data: the event
Keys == {"k1", "k2"}            \* k1 is the shared secret, k2 a key that is not
Headers(w) ==
    {None, NoSeparator,
     Header("md5", hexdigest("k1", json_dumps(w.body))),
     Header("SHA256", hexdigest("k1", json_dumps(w.body)))}
    \cup {Header("sha256", hexdigest(k, m)) : k \in Keys, m \in {w, json_dumps(w.body)}}

ResetLocals ==
    /\ store0' = store
    /\ db_log' = {}
    /\ db_exc' = FALSE
    /\ rowcount' = -1
    /\ retries_total' = 0
    /\ posts' = 0
    /\ seen' = {}
    /\ http_out' = NoHttp
    /\ result' = NoResult
    /\ api_res' = ""
    /\ post_call' = NoPost
    /\ verify' = NoCall
    /\ user_id_arg' = 0
    /\ fetch_res' = ""

\* The host parsed the received bytes and calls process_webhook_data(body,
\* header); the function starts by re-serializing the body.
Enter ==
    /\ pc = "idle"
    /\ \E body \in Bodies, st \in Styles :
         \E h \in Headers([style |-> st, body |-> body]) :
            /\ wire' = [style |-> st, body |-> body]
            /\ webhook_body' = json_loads([style |-> st, body |-> body])
            /\ signature_header' = h
            /\ ResetLocals
            /\ raw_payload' = json_dumps(json_loads([style |-> st, body |-> body]))
    /\ op' = "webhook"
    /\ pc' = "auth"
    /\ UNCHANGED <<config, store, txn, checkedOut>>

\* if WEBHOOK_SECRET: if not _is_valid_hmac(...): return invalid signature
Authenticate_ValidateFirst ==
    /\ op = "webhook" /\ pc = "auth"
    /\ IF webhook_body.kind = "object"
          /\ (IsNone(Get(webhook_body.user_id))
                \/ ~IsInstanceInt(Get(webhook_body.user_id)))
       THEN result' = Err("invalid user_id") /\ pc' = "done" /\ verify' = verify
       ELSE IF WEBHOOK_SECRET # ""
            THEN /\ verify' = Verified(WEBHOOK_SECRET, raw_payload,
                                       OrEmpty(signature_header))
                 /\ IF ~verify'.ok
                    THEN result' = Err("invalid signature") /\ pc' = "done"
                    ELSE result' = result /\ pc' = "validate"
            ELSE verify' = verify /\ result' = result /\ pc' = "validate"
    /\ UNCHANGED <<config, event, raw_payload, store0, dbvars, httpvars, op,
                   api_res, post_call, fetchvars>>

Authenticate_VerifiesWhenHeaderGiven ==
    /\ op = "webhook" /\ pc = "auth"
    /\ IF WEBHOOK_SECRET # "" \/ signature_header.present
       THEN /\ verify' = Verified(WEBHOOK_SECRET, raw_payload,
                                  OrEmpty(signature_header))
            /\ IF ~verify'.ok
               THEN result' = Err("invalid signature") /\ pc' = "done"
               ELSE result' = result /\ pc' = "validate"
       ELSE verify' = verify /\ result' = result /\ pc' = "validate"
    /\ UNCHANGED <<config, event, raw_payload, store0, dbvars, httpvars, op,
                   api_res, post_call, fetchvars>>

Authenticate ==
    /\ op = "webhook" /\ pc = "auth"
    /\ IF WEBHOOK_SECRET # ""
       THEN /\ verify' = Verified(WEBHOOK_SECRET, raw_payload,
                                  OrEmpty(signature_header))
            /\ IF ~verify'.ok
               THEN result' = Err("invalid signature") /\ pc' = "done"
               ELSE result' = result /\ pc' = "validate"
       ELSE verify' = verify /\ result' = result /\ pc' = "validate"
    /\ UNCHANGED <<config, event, raw_payload, store0, dbvars, httpvars, op,
                   api_res, post_call, fetchvars>>

\* user_id = body.get("user_id"); action = body.get("action"); basic validation
\* (body.get on a body that is no dict raises AttributeError, which the outer
\* except Exception turns into error with str(e))
Validate ==
    /\ op = "webhook" /\ pc = "validate"
    /\ IF webhook_body.kind # "object"
       THEN result' = Err("AttributeError") /\ pc' = "done"
       ELSE IF IsNone(Get(webhook_body.user_id))
               \/ ~IsInstanceInt(Get(webhook_body.user_id))
            THEN result' = Err("invalid user_id") /\ pc' = "done"
            ELSE result' = result /\ pc' = "mutate"
    /\ UNCHANGED <<config, event, raw_payload, store0, dbvars, httpvars, op,
                   api_res, post_call, verify, fetchvars>>

\* if action == "delete_user": if not self.db_engine: return db not configured
Mutate_EngineCheckFirst ==
    /\ op = "webhook" /\ pc = "mutate"
    /\ IF db_engine = "none"
       THEN result' = Err("db not configured") /\ pc' = "done"
       ELSE IF Get(webhook_body.action) = JStr("delete_user")
            THEN result' = result /\ pc' = "connect"
            ELSE result' = result /\ pc' = "forward"
    /\ UNCHANGED <<config, event, raw_payload, store0, dbvars, httpvars, op,
                   api_res, post_call, verify, fetchvars>>

Mutate ==
    /\ op = "webhook" /\ pc = "mutate"
    /\ IF Get(webhook_body.action) = JStr("delete_user")
       THEN IF db_engine = "none"
            THEN result' = Err("db not configured") /\ pc' = "done"
            ELSE result' = result /\ pc' = "connect"
       ELSE result' = result /\ pc' = "forward"
    /\ UNCHANGED <<config, event, raw_payload, store0, dbvars, httpvars, op,
                   api_res, post_call, verify, fetchvars>>

\* with self.get_db_connection() as conn: engine.connect() gives a connection
\* or raises SQLAlchemyError (caught: db error)
Connect ==
    /\ op = "webhook" /\ pc = "connect"
    /\ db_log' = db_log \cup {"connect"}
    /\ \/ /\ checkedOut' = checkedOut + 1
          /\ pc' = "execute"
          /\ UNCHANGED <<db_exc, result>>
       \/ /\ db_exc' = TRUE
          /\ result' = Err("db error")
          /\ pc' = "done"
          /\ UNCHANGED checkedOut
    /\ UNCHANGED <<config, event, raw_payload, store0, store, txn, rowcount,
                   httpvars, op, api_res, post_call, verify, fetchvars>>

\* conn.execute(delete_sql, {"uid": user_id}): nothing in the code commits, so
\* the delete is durable only on a connection that autocommits
Execute ==
    /\ op = "webhook" /\ pc = "execute"
    /\ db_log' = db_log \cup {"delete"}
    /\ \/ /\ rowcount' = Cardinality(store \cap {webhook_body.user_id.n})
          /\ IF db_engine = "autocommit"
             THEN store' = store \ {webhook_body.user_id.n} /\ txn' = txn
             ELSE txn' = store \cap {webhook_body.user_id.n} /\ store' = store
          /\ UNCHANGED db_exc
       \/ /\ db_exc' = TRUE
          /\ UNCHANGED <<store, txn, rowcount>>
    /\ pc' = "close"
    /\ UNCHANGED <<config, event, raw_payload, store0, checkedOut, httpvars,
                   op, result, api_res, post_call, verify, fetchvars>>

\* leaving the with block: Connection.close() rolls back what is uncommitted
\* and returns the connection to the pool; except SQLAlchemyError: db error
Close_SwallowsError ==
    /\ op = "webhook" /\ pc = "close"
    /\ checkedOut' = checkedOut - 1
    /\ txn' = {}
    /\ result' = result /\ pc' = "forward"
    /\ UNCHANGED <<config, event, raw_payload, store0, store, db_log, db_exc,
                   rowcount, httpvars, op, api_res, post_call, verify, fetchvars>>

Close_LeaksOnError ==
    /\ op = "webhook" /\ pc = "close"
    /\ checkedOut' = IF db_exc THEN checkedOut ELSE checkedOut - 1
    /\ txn' = {}
    /\ IF db_exc
       THEN result' = Err("db error") /\ pc' = "done"
       ELSE result' = result /\ pc' = "forward"
    /\ UNCHANGED <<config, event, raw_payload, store0, store, db_log, db_exc,
                   rowcount, httpvars, op, api_res, post_call, verify, fetchvars>>

Close ==
    /\ op = "webhook" /\ pc = "close"
    /\ checkedOut' = checkedOut - 1
    /\ txn' = {}
    /\ IF db_exc
       THEN result' = Err("db error") /\ pc' = "done"
       ELSE result' = result /\ pc' = "forward"
    /\ UNCHANGED <<config, event, raw_payload, store0, store, db_log, db_exc,
                   rowcount, httpvars, op, api_res, post_call, verify, fetchvars>>

\* if WEBHOOK_ENDPOINT: self.session.post(...) else return processed
Forward ==
    /\ op = "webhook" /\ pc = "forward"
    /\ IF WEBHOOK_ENDPOINT = ""
       THEN /\ result' = Processed /\ pc' = "done"
            /\ UNCHANGED <<retries_total, post_call>>
       ELSE /\ result' = result /\ pc' = "sending"
            /\ retries_total' = max_retries
            /\ post_call' = Post(WEBHOOK_ENDPOINT, webhook_body)
    /\ UNCHANGED <<config, event, raw_payload, store0, dbvars, posts, seen,
                   http_out, op, api_res, verify, fetchvars>>

\* One attempt of session.post inside urllib3's urlopen loop under
\* Retry(total=max_retries, status_forcelist=...): the endpoint answers a. A
\* status is retried only for a retryable method; a connection error is
\* retried for any method; a read error only for a retryable method.
Send ==
    /\ pc = "sending"
    /\ \E a \in Answers :
         /\ posts' = posts + 1
         /\ seen' = seen \cup {a}
         /\ LET retry == \/ a.kind = "connect_error"
                         \/ a.kind = "read_timeout" /\ is_method_retryable("POST")
                         \/ a.kind = "response" /\ is_retry("POST", a.code)
                exhausted == retries_total - 1 < 0
            IN  IF retry /\ ~exhausted
                THEN /\ retries_total' = retries_total - 1
                     /\ pc' = "sending"
                     /\ http_out' = http_out
                ELSE /\ retries_total' = retries_total
                     /\ pc' = "sent"
                     /\ http_out' =
                          IF a.kind = "response"
                          THEN IF retry THEN Raised("RetryError") ELSE a
                          ELSE IF a.kind = "connect_error"
                               THEN Raised("ConnectionError")
                               ELSE Raised("ReadTimeout")
    /\ UNCHANGED <<config, event, raw_payload, store0, dbvars, op, result,
                   api_res, post_call, verify, fetchvars>>

\* return processed with forward_status, or except RequestException: processed
\* with forward_error
ForwardReturn ==
    /\ op = "webhook" /\ pc = "sent"
    /\ result' = IF http_out.kind = "response"
                 THEN ProcessedStatus(http_out.code)
                 ELSE ProcessedError(http_out.exc)
    /\ pc' = "done"
    /\ UNCHANGED <<config, event, raw_payload, store0, dbvars, httpvars, op,
                   api_res, post_call, verify, fetchvars>>

\* ------------------------------------------------------- call_external_api
CallApiEnter ==
    /\ pc = "idle"
    /\ op' = "api"
    /\ wire' = NoBytes /\ webhook_body' = EmptyBody /\ signature_header' = None
    /\ raw_payload' = NoBytes
    /\ store0' = store
    /\ db_log' = {} /\ db_exc' = FALSE /\ rowcount' = -1
    /\ posts' = 0 /\ seen' = {} /\ http_out' = NoHttp
    /\ result' = NoResult
    /\ IF API_KEY = ""
       THEN /\ api_res' = "None" /\ pc' = "done" /\ retries_total' = 0
            /\ UNCHANGED post_call
       ELSE /\ api_res' = "" /\ pc' = "sending" /\ retries_total' = max_retries
            /\ post_call' = Post("api_base/process", EmptyBody)   \* json=data
    /\ UNCHANGED <<config, event, raw_payload, store0, dbvars, posts, seen,
                   http_out, result, verify, fetchvars>>

\* resp.raise_for_status(); return resp.json(); except HTTPError / 
\* RequestException: return None
CallApiReturn ==
    /\ op = "api" /\ pc = "sent"
    /\ IF http_out.kind = "response" /\ ~(400 <= http_out.code /\ http_out.code < 600)
       THEN api_res' \in {"dict", "None"}      \* a body that is not JSON: None
       ELSE api_res' = "None"
    /\ pc' = "done"
    /\ UNCHANGED <<config, event, raw_payload, store0, dbvars, httpvars, op,
                   result, post_call, verify, fetchvars>>

\* --------------------------------------------------------- fetch_user_data
\* if not self.db_engine: return None
FetchEnter ==
    /\ pc = "idle"
    /\ op' = "fetch"
    /\ \E u \in Ids : user_id_arg' = u
    /\ IF db_engine = "none"
       THEN fetch_res' = "None" /\ pc' = "done"
       ELSE fetch_res' = fetch_res /\ pc' = "connect"
    /\ UNCHANGED <<config, event, raw_payload, store0, dbvars, httpvars, result,
                   api_res, post_call, verify>>

\* with self.get_db_connection() as conn: or SQLAlchemyError, return None
FetchConnect ==
    /\ op = "fetch" /\ pc = "connect"
    /\ db_log' = db_log \cup {"connect"}
    /\ \/ /\ checkedOut' = checkedOut + 1
          /\ pc' = "execute"
          /\ UNCHANGED <<db_exc, fetch_res>>
       \/ /\ db_exc' = TRUE
          /\ fetch_res' = "None"
          /\ pc' = "done"
          /\ UNCHANGED checkedOut
    /\ UNCHANGED <<config, event, raw_payload, store0, store, txn, rowcount,
                   httpvars, op, result, api_res, post_call, verify, user_id_arg>>

\* conn.execute(query, {"uid": user_id}).fetchone(): the row as a dict, or None
FetchExecute ==
    /\ op = "fetch" /\ pc = "execute"
    /\ db_log' = db_log \cup {"select"}
    /\ \/ /\ fetch_res' = IF user_id_arg \in store THEN "dict" ELSE "None"
          /\ UNCHANGED db_exc
       \/ /\ db_exc' = TRUE
          /\ UNCHANGED fetch_res
    /\ pc' = "close"
    /\ UNCHANGED <<config, event, raw_payload, store0, store, txn, checkedOut,
                   rowcount, httpvars, op, result, api_res, post_call, verify,
                   user_id_arg>>

\* leaving the with block, by return or by exception: the connection is
\* closed; except SQLAlchemyError: return None
FetchClose ==
    /\ op = "fetch" /\ pc = "close"
    /\ checkedOut' = checkedOut - 1
    /\ txn' = {}
    /\ fetch_res' = IF db_exc THEN "None" ELSE fetch_res
    /\ pc' = "done"
    /\ UNCHANGED <<config, event, raw_payload, store0, store, db_log, db_exc,
                   rowcount, httpvars, op, result, api_res, post_call, verify,
                   user_id_arg>>

\* ------------------------------------------------------------ ensure_table
\* if not self.db_engine: return
EnsureEnter ==
    /\ pc = "idle"
    /\ op' = "ensure"
    /\ pc' = IF db_engine = "none" THEN "done" ELSE "connect"
    /\ UNCHANGED <<config, event, raw_payload, store0, dbvars, httpvars, result,
                   api_res, post_call, verify, fetchvars>>

\* with self.get_db_connection() as conn: or SQLAlchemyError, logged
EnsureConnect ==
    /\ op = "ensure" /\ pc = "connect"
    /\ db_log' = db_log \cup {"connect"}
    /\ \/ /\ checkedOut' = checkedOut + 1
          /\ pc' = "execute"
          /\ UNCHANGED db_exc
       \/ /\ db_exc' = TRUE
          /\ pc' = "done"
          /\ UNCHANGED checkedOut
    /\ UNCHANGED <<config, event, raw_payload, store0, store, txn, rowcount,
                   httpvars, op, result, api_res, post_call, verify, fetchvars>>

\* conn.execute(create_sql): CREATE TABLE IF NOT EXISTS leaves the rows alone
EnsureExecute ==
    /\ op = "ensure" /\ pc = "execute"
    /\ db_log' = db_log \cup {"create"}
    /\ db_exc' \in {FALSE, TRUE}
    /\ pc' = "close"
    /\ UNCHANGED <<config, event, raw_payload, store0, store, txn, checkedOut,
                   rowcount, httpvars, op, result, api_res, post_call, verify,
                   fetchvars>>

\* leaving the with block: the connection is closed
EnsureClose ==
    /\ op = "ensure" /\ pc = "close"
    /\ checkedOut' = checkedOut - 1
    /\ txn' = {}
    /\ pc' = "done"
    /\ UNCHANGED <<config, event, raw_payload, store0, store, db_log, db_exc,
                   rowcount, httpvars, op, result, api_res, post_call, verify,
                   fetchvars>>

\* The operation has returned to its caller (main); its locals are gone.
Return ==
    /\ pc = "done"
    /\ pc' = "idle"
    /\ op' = "none"
    /\ wire' = NoBytes /\ webhook_body' = EmptyBody /\ signature_header' = None
    /\ raw_payload' = NoBytes
    /\ ResetLocals
    /\ UNCHANGED <<config, store, txn, checkedOut>>

Next ==
    \/ Enter
    \/ Authenticate
    \/ Validate
    \/ Mutate
    \/ Connect
    \/ Execute
    \/ Close
    \/ Forward
    \/ Send
    \/ ForwardReturn
    \/ CallApiEnter
    \/ CallApiReturn
    \/ FetchEnter
    \/ FetchConnect
    \/ FetchExecute
    \/ FetchClose
    \/ EnsureEnter
    \/ EnsureConnect
    \/ EnsureExecute
    \/ EnsureClose
    \/ Return

Spec == Init /\ [][Next]_vars

TypeOK ==
    /\ pc \in {"idle", "auth", "validate", "mutate", "connect", "execute",
               "close", "forward", "sending", "sent", "done"}
    /\ checkedOut \in 0..1
    /\ posts \in 0..(max_retries + 1)
    /\ store \subseteq Ids

\* ------------------------------------- _is_valid_hmac called on its own
\* The verifier is a static method: any caller may apply it to any secret,
\* payload and header string.
Secrets == {"", "k1", "k2"}
Payloads == {[style |-> st, body |-> b] : st \in Styles, b \in {EmptyBody, ArrayBody}}
Digests == {hexdigest(k, m) : k \in Keys, m \in Payloads} \cup {NoDigest}
HeaderStrings ==
    {EmptyString, NoSeparator}
    \cup {Header(pre, d) : pre \in {"sha256", "SHA256", "md5"}, d \in Digests}

InitHmac ==
    /\ WEBHOOK_SECRET = "" /\ WEBHOOK_ENDPOINT = "" /\ API_KEY = ""
    /\ db_url = "" /\ db_engine = "none"
    /\ store = {} /\ txn = {} /\ checkedOut = 0
    /\ op = "none" /\ pc = "idle"
    /\ wire = NoBytes /\ webhook_body = EmptyBody /\ signature_header = None
    /\ raw_payload = NoBytes /\ store0 = {}
    /\ db_log = {} /\ db_exc = FALSE /\ rowcount = -1
    /\ retries_total = 0 /\ posts = 0 /\ seen = {} /\ http_out = NoHttp
    /\ result = NoResult /\ api_res = "" /\ post_call = NoPost
    /\ verify = NoCall /\ user_id_arg = 0 /\ fetch_res = ""

VerifyCall ==
    /\ pc = "idle"
    /\ \E secret \in Secrets, payload \in Payloads, header \in HeaderStrings :
          verify' = Verified(secret, payload, header)
    /\ UNCHANGED <<config, event, raw_payload, store0, dbvars, httpvars, op, pc,
                   result, api_res, post_call, fetchvars>>

NextHmac == VerifyCall

SpecHmac == InitHmac /\ [][NextHmac]_vars

\* ======================================================== claim vocabulary
\* These say what a claim means by its words, apart from how the code decides.
Done == op = "webhook" /\ pc = "done"
SecretConfigured == WEBHOOK_SECRET # ""
uid == webhook_body.user_id.n
\* The header is missing, has no "=", names another algorithm, or carries a
\* digest that is not the HMAC of the verified payload under the secret.
HeaderMissing == ~signature_header.present
HeaderMalformed ==
    signature_header.present
    /\ (~signature_header.eq \/ signature_header.pre \notin {"sha256", "SHA256"})
DigestMismatch ==
    signature_header.present /\ signature_header.eq
    /\ signature_header.dig # hexdigest(WEBHOOK_SECRET, raw_payload)
BadSignature == HeaderMissing \/ HeaderMalformed \/ DigestMismatch
\* Authentication succeeded, or none is required
Admitted == ~SecretConfigured \/ ~BadSignature
UserIdIsInteger == webhook_body.user_id.t = "int"
ActionIsString == webhook_body.action.t = "str"
IsDelete == webhook_body.action = JStr("delete_user")
ValidDelete == Admitted /\ UserIdIsInteger /\ IsDelete

\* C1: with a signing secret configured, an invocation whose signature header
\* is missing, malformed or does not verify against the payload never gets
\* past authentication: it issues no database operation, acquires no
\* connection, sends no POST, leaves the store alone, and ends with
\* status error, message 'invalid signature'.
C1_BadSignatureNoSideEffects ==
    (op = "webhook" /\ SecretConfigured /\ BadSignature) =>
        /\ pc \in {"auth", "done"}
        /\ db_log = {} /\ checkedOut = 0 /\ posts = 0 /\ store = store0
        /\ (pc = "done" => result = Err("invalid signature"))

\* an event that would delete a stored row and be forwarded, had it been signed
C1_Witness ==
    /\ Done /\ SecretConfigured /\ DigestMismatch
    /\ UserIdIsInteger /\ IsDelete /\ uid \in store
    /\ db_engine # "none" /\ WEBHOOK_ENDPOINT # ""
    /\ result = Err("invalid signature")

UnauthenticatedOutcome == Err("invalid signature")
\* C2: the outcome returned to an unauthenticated caller is one fixed value,
\* the same for every body, so it never carries an 'invalid <field>' detail
\* whether or not user_id and action are valid.
C2_NoValidationOracle ==
    (Done /\ SecretConfigured /\ BadSignature) =>
        /\ result = UnauthenticatedOutcome
        /\ result.message \notin {"invalid user_id", "invalid action"}

\* an unauthenticated event whose user_id and action are both invalid
C2_Witness ==
    /\ Done /\ SecretConfigured /\ BadSignature
    /\ ~UserIdIsInteger /\ ~ActionIsString
    /\ result = UnauthenticatedOutcome

\* C3: an event whose sender signed the bytes actually sent with the shared
\* secret is authenticated, however those bytes are laid out.
C3_SignedWireBytesAuthenticate ==
    (Done /\ SecretConfigured
          /\ signature_header = Header("sha256", hexdigest(WEBHOOK_SECRET, wire)))
        => result.message # "invalid signature"

\* C4: an admitted event whose user_id is absent or not a JSON integer ends
\* with error 'invalid user_id', no delete and no forwarding POST.
C4_NonIntegerUserIdRejected ==
    (Done /\ Admitted /\ ~UserIdIsInteger) =>
        /\ result = Err("invalid user_id")
        /\ "delete" \notin db_log
        /\ posts = 0

\* C5: an admitted event with an integer user_id whose action is absent or
\* not a string ends with error 'invalid action', no delete and no POST.
C5_NonStringActionRejected ==
    (Done /\ Admitted /\ UserIdIsInteger /\ ~ActionIsString) =>
        /\ result = Err("invalid action")
        /\ "delete" \notin db_log
        /\ posts = 0

\* C6 as stated: for a valid delete_user event, storage not configured ends
\* in error 'storage not configured', a failed delete in error 'storage
\* failure', and no forwarding POST is sent.
C6_Original ==
    (Done /\ ValidDelete /\ (db_engine = "none" \/ db_exc)) =>
        /\ result = (IF db_engine = "none" THEN Err("storage not configured")
                                         ELSE Err("storage failure"))
        /\ posts = 0

\* C6 amended: for a valid delete_user event, storage not configured (no URL,
\* or create_engine failed) ends in error 'db not configured', a delete that
\* raises SQLAlchemyError in error 'db error', and no forwarding POST is sent
\* even with a forwarding endpoint configured.
C6_StorageFailureAborts ==
    (Done /\ ValidDelete /\ (db_engine = "none" \/ db_exc)) =>
        /\ result = (IF db_engine = "none" THEN Err("db not configured")
                                         ELSE Err("db error"))
        /\ posts = 0

\* the delete query failed with a forwarding endpoint configured
C6_Witness ==
    /\ Done /\ ValidDelete /\ db_exc /\ "delete" \in db_log
    /\ WEBHOOK_ENDPOINT # ""
    /\ result = Err("db error")

\* C7: a valid delete_user event that returned 'processed' left exactly the
\* row user_id absent from the store and every other row as it was; when the
\* row was already absent it affected zero rows and left the store unchanged.
C7_DeleteDurableIdempotent ==
    (Done /\ ValidDelete /\ result.status = "processed") =>
        /\ uid \notin store
        /\ store = store0 \ {uid}
        /\ (uid \notin store0 => rowcount = 0 /\ store = store0)

ForwardFailed ==
    http_out.kind = "raised" /\ http_out.exc \in {"ConnectionError", "ReadTimeout"}
\* C8: when the forwarding POST fails by timeout or connection error the
\* outcome is 'processed' with a forwarding-error detail, and the delete of
\* the mutation step, if one was executed, is committed.
C8_ForwardFailureAbsorbed ==
    (Done /\ ForwardFailed) =>
        /\ result.status = "processed"
        /\ result.forward_error # ""
        /\ (rowcount >= 0 => uid \notin store)

\* C9: when the endpoint answers every POST with 500, the POST is attempted
\* 1 + max_retries times and the outcome is 'processed' with a forwarding
\* failure detail.
C9_Retries500ThenFailureDetail ==
    (Done /\ seen = {Resp(500)}) =>
        /\ posts = 1 + max_retries
        /\ result.status = "processed"
        /\ result.forward_error # ""

\* C10: on the shared session a response status in the retry set triggers a
\* retry, at most max_retries of them, and a 404 is never retried and is
\* reported as a failure after one attempt.
C10_RetryOnForcelistOnly ==
    /\ posts <= 1 + max_retries
    /\ (pc \in {"sent", "done"} =>
          \A a \in seen :
             (a.kind = "response" /\ a.code \in status_forcelist) => posts > 1)
    /\ (pc \in {"sent", "done"} /\ seen = {Resp(404)} => posts = 1)
    /\ (op = "api" /\ pc = "done" /\ seen = {Resp(404)} => api_res = "None")

\* C11: a valid event whose action is a string other than 'delete_user'
\* performs no database operation (no connection acquired, store unchanged,
\* also with no storage configured); with a forwarding endpoint configured it
\* makes exactly one session.post call, of the original body to that
\* endpoint, and returns 'processed'; with none it posts nothing and returns
\* 'processed'.
C11_OtherActionPassesThrough ==
    (op = "webhook" /\ Admitted /\ webhook_body.kind = "object"
        /\ UserIdIsInteger /\ ActionIsString /\ ~IsDelete) =>
        /\ db_log = {} /\ checkedOut = 0 /\ txn = {} /\ store = store0
        /\ rowcount = -1
        /\ (pc = "done" =>
              /\ result.status = "processed"
              /\ post_call = (IF WEBHOOK_ENDPOINT = "" THEN NoPost
                              ELSE Post(WEBHOOK_ENDPOINT, webhook_body)))

\* a 'noop' event for a stored row, forwarded with no storage configured
C11_Witness ==
    /\ Done /\ Admitted /\ UserIdIsInteger /\ webhook_body.action = JStr("noop")
    /\ uid \in store /\ db_engine = "none" /\ WEBHOOK_ENDPOINT # ""
    /\ post_call.calls = 1 /\ posts >= 1
    /\ result.status = "processed"

\* C12: with no signing secret configured the verifier is never called and
\* 'invalid signature' is never returned; whatever the header (absent,
\* malformed, wrong), authentication steps straight to field validation
\* without an outcome, so the outcome does not depend on the header.
C12_UnsignedSkipsVerifier ==
    /\ []((op = "webhook" /\ ~SecretConfigured) =>
            (~verify.called /\ result.message # "invalid signature"))
    /\ [][(op = "webhook" /\ pc = "auth" /\ ~SecretConfigured) =>
            (pc' = "validate" /\ result' = NoResult /\ verify' = NoCall)]_vars

\* an unsigned-mode event with a malformed header that was processed
C12_Witness ==
    /\ Done /\ ~SecretConfigured /\ signature_header = NoSeparator
    /\ UserIdIsInteger /\ ActionIsString
    /\ result.status = "processed"

\* What a call of the verifier was given
Signed == hexdigest(verify.secret, verify.payload)
HasDigest == verify.header.present /\ verify.header.eq
\* C13 as stated: a header 'sha256=' + HMAC(secret, payload) verifies for a
\* non-empty secret; a digest that is not the HMAC of this payload under this
\* secret does not; and the verifier answers false for an empty secret, an
\* empty header, a header with no '=' and an algorithm token other than
\* sha256.
C13_Original ==
    verify.called =>
        /\ (verify.secret # "" /\ verify.header = Header("sha256", Signed)
              => verify.ok)
        /\ (HasDigest /\ verify.header.dig # Signed => ~verify.ok)
        /\ (verify.secret = "" \/ verify.header = EmptyString
              \/ ~verify.header.eq \/ verify.header.pre # "sha256"
              => ~verify.ok)

\* C13 amended: the same, the algorithm token being compared without regard
\* to letter case: the verifier answers false for a token that is not
\* sha256 in any letter case, and true for 'SHA256=' + HMAC(secret, payload).
C13_VerifierRoundTrip ==
    verify.called =>
        /\ (verify.secret # "" /\ HasDigest /\ verify.header.dig = Signed
              /\ verify.header.pre \in {"sha256", "SHA256"}
              => verify.ok)
        /\ (HasDigest /\ verify.header.dig # Signed => ~verify.ok)
        /\ (verify.secret = "" \/ verify.header = EmptyString
              \/ ~verify.header.eq
              \/ verify.header.pre \notin {"sha256", "SHA256"}
              => ~verify.ok)

\* the verifier accepted the signature of the payload it was given
C13_Witness ==
    /\ verify.called /\ verify.secret = "k1"
    /\ verify.payload = [style |-> "compact", body |-> ArrayBody]
    /\ verify.header = Header("sha256", Signed)
    /\ verify.ok

\* C14: fetch_user_data, ensure_table and the delete of process_webhook_data
\* hold a connection only while their query runs and release it on every
\* exit path, the query raising included: whenever no operation is running
\* or one has finished, no connection is checked out of the pool.
C14_ConnectionsReleased ==
    /\ checkedOut \in {0, 1}
    /\ (checkedOut = 1 => pc \in {"execute", "close"})
    /\ (pc \in {"idle", "done"} => checkedOut = 0)

\* an operation whose query raised after the connection was acquired
C14_Witness ==
    /\ pc = "done" /\ op \in {"webhook", "fetch", "ensure"}
    /\ db_exc /\ db_log \cap {"delete", "select", "create"} # {}
    /\ checkedOut = 0

\* C15: every invocation, whatever the body (a body that is no JSON object
\* included), the configuration and the failures of the store and of the
\* forwarding call, ends with an outcome whose status is 'processed' or
\* 'error'; and 'processed' is returned only if authentication (when
\* required), validation (user_id an integer, action a string) and the
\* mutation step (a delete_user event had storage and its delete ran without
\* error) all succeeded.
C15_TotalOutcome ==
    Done =>
        /\ result.status \in {"processed", "error"}
        /\ (result.status = "processed" =>
              /\ Admitted
              /\ webhook_body.kind = "object"
              /\ UserIdIsInteger /\ ActionIsString
              /\ ~db_exc
              /\ (IsDelete => db_engine # "none" /\ rowcount >= 0))

====
